---- MODULE Spec2Model ----
(***************************************************************************)
(* Audio delivery and reconnection subsystem of the buffered real-time     *)
(* transcription client (src/src/main.ts).                                 *)
(*                                                                         *)
(* The browser runs every callback to completion on one thread, so each    *)
(* action below is one callback, or the stretch of an async function       *)
(* between two awaits.  Transports (RealtimeClient objects), the capture   *)
(* source and the credential endpoint are the environment: a transport is  *)
(* known by the chunks handed to it (sendLog) and by its socket state.     *)
(*                                                                         *)
(* Audio is modelled by the identity of its samples: the capture source    *)
(* numbers the samples it delivers 1, 2, 3, ... and a frame or a piece of  *)
(* a chunk is a run [lo, len] of consecutive sample numbers.  A run with   *)
(* lo = 0 is zero fill (the untouched tail of a new Int16Array).           *)
(* Times are integer milliseconds.                                         *)
(***************************************************************************)
EXTENDS Integers, Sequences, FiniteSets, TLC

\* ------------------------------------------------------------------------
\* Program constants
TARGET_SAMPLE_RATE == 16000
CHUNK_DURATION_MS == 50
CHUNK_SAMPLES == (TARGET_SAMPLE_RATE * CHUNK_DURATION_MS) \div 1000
ACK_TIMEOUT_MS == 3000
HEALTH_CHECK_INTERVAL_MS == 1000

\* ------------------------------------------------------------------------
\* Bounds of the model
MaxStarts == 2
MaxPendingStarts == 1
MaxReconnects == 2
MaxFrames == 2
MaxClockSteps == 1

\* The clock is read at multiples of this many milliseconds
ClockStep == ACK_TIMEOUT_MS + 1

\* Lengths (in samples, after resampling) of the frames the capture delivers
FrameLens == {0, CHUNK_SAMPLES \div 2, CHUNK_SAMPLES + CHUNK_SAMPLES \div 2}

VARIABLES
    \* module-level state of main.ts
    client,                 \* 0 (null) or the id of the current transport
    isReconnecting,
    audioBufferQueue,       \* sequence of frames (runs)
    queuedSamples,
    nextSeqNo,
    pendingChunks,          \* map seqNo -> [chunk, sentAt]
    healthCheckIntervalId,  \* 0 (null) or a timer id
    sessionStopped,
    savedQueuedSamples,
    slidingBuffer,          \* sequence of [chunk, timestamp]
    lastTranscriptEndTime,
    currentAudioTimestamp,
    audioContext,           \* 0 (null) or the id of the start attempt that made it
    pcmRecorder,            \* 0 (null) or the id of the start attempt that made it
    startDisabled,          \* startButton.disabled
    stopDisabled,           \* stopButton.disabled
    \* suspended async activations
    starts,                 \* startSession activations
    recons,                 \* reconnectSession activations
    \* environment
    sockets,                \* socket state of every transport created
    sendLog,                \* chunks handed to every transport (sendAudio)
    recorders,              \* state of the recorder of every start attempt
    timers,                 \* ids of the interval timers that are set
    now,                    \* Date.now()
    captured,               \* number of samples the capture has delivered
    frames,                 \* number of audio events so far
    \* history
    stopPhase,              \* a stop has run and no start was requested since
    dropped,                \* the last call of reconnectSession returned at its guard
    dequeued,               \* chunks dequeueChunk returned since client was last assigned
    replayed,               \* chunks the replay loop sent since client was last assigned
    enqueued                \* frames enqueueAudio queued since startSession last made a client

prog == <<client, isReconnecting, audioBufferQueue, queuedSamples, nextSeqNo,
          pendingChunks, healthCheckIntervalId, sessionStopped,
          savedQueuedSamples, slidingBuffer, lastTranscriptEndTime,
          currentAudioTimestamp, audioContext, pcmRecorder, startDisabled,
          stopDisabled>>
env == <<sockets, sendLog, recorders, timers, now, captured, frames>>
hist == <<stopPhase, dropped, dequeued, replayed, enqueued>>
vars == <<prog, starts, recons, env, hist>>

\* ------------------------------------------------------------------------
\* Maps (Map<number, ...>)
EmptyMap == [x \in {} |-> 0]
MapSet(m, k, v) == [x \in (DOMAIN m) \cup {k} |-> IF x = k THEN v ELSE m[x]]
MapDelete(m, k) == [x \in (DOMAIN m) \ {k} |-> m[x]]

\* ------------------------------------------------------------------------
\* Runs of samples
Run(lo, len) == [lo |-> lo, len |-> len]

\* chunk.set(piece, filled): the chunk so far followed by the piece; adjacent
\* runs of consecutive samples are one run, so that equal sample sequences are
\* equal values
AppendRun(acc, r) ==
    IF r.len = 0 THEN acc
    ELSE IF Len(acc) > 0 /\ acc[Len(acc)].lo > 0 /\ r.lo > 0
            /\ acc[Len(acc)].lo + acc[Len(acc)].len = r.lo
         THEN [acc EXCEPT ![Len(acc)].len = @ + r.len]
         ELSE Append(acc, r)

RECURSIVE ConcatRuns(_, _)
ConcatRuns(acc, rs) ==
    IF rs = <<>> THEN acc ELSE ConcatRuns(AppendRun(acc, Head(rs)), Tail(rs))

\* the samples of a sequence of frames, and of a sequence of chunks, in order
FlattenFrames(fs) == ConcatRuns(<<>>, fs)

RECURSIVE FlattenChunks(_)
FlattenChunks(cs) ==
    IF cs = <<>> THEN <<>>
    ELSE ConcatRuns(FlattenChunks(SubSeq(cs, 1, Len(cs) - 1)), cs[Len(cs)])

RECURSIVE SumLen(_)
SumLen(rs) == IF rs = <<>> THEN 0 ELSE Head(rs).len + SumLen(Tail(rs))

\* ------------------------------------------------------------------------
\* dequeueChunk (main.ts 536-566) on a queue q with running count n:
\* [chunk (<<>> stands for null), q, n]
\* the fill loop shifting the straddling frame out instead of leaving its rest
RECURSIVE dequeueFillNoLeftover(_, _, _)
dequeueFillNoLeftover(q, filled, chunk) ==
    IF filled < CHUNK_SAMPLES /\ Len(q) > 0
    THEN LET current == Head(q)
             needed == CHUNK_SAMPLES - filled
             take == IF current.len <= needed THEN current.len ELSE needed
         IN dequeueFillNoLeftover(Tail(q), filled + take,
                                  AppendRun(chunk, Run(current.lo, take)))
    ELSE [q |-> q,
          chunk |-> IF filled < CHUNK_SAMPLES
                    THEN Append(chunk, Run(0, CHUNK_SAMPLES - filled))
                    ELSE chunk]

RECURSIVE dequeueFill(_, _, _)
dequeueFill(q, filled, chunk) ==
    IF filled < CHUNK_SAMPLES /\ Len(q) > 0
    THEN LET current == Head(q)
             remainingInCurrent == current.len
             needed == CHUNK_SAMPLES - filled
         IN IF remainingInCurrent <= needed
            THEN dequeueFill(Tail(q), filled + remainingInCurrent,
                             AppendRun(chunk, current))
            ELSE dequeueFill(<<Run(current.lo + needed, current.len - needed)>> \o Tail(q),
                             filled + needed,
                             AppendRun(chunk, Run(current.lo, needed)))
    ELSE [q |-> q,
          chunk |-> IF filled < CHUNK_SAMPLES
                    THEN Append(chunk, Run(0, CHUNK_SAMPLES - filled))
                    ELSE chunk]

dequeueChunk(q, n) ==
    IF n < CHUNK_SAMPLES
    THEN [chunk |-> <<>>, q |-> q, n |-> n]
    ELSE LET f == dequeueFill(q, 0, <<>>)
             m == n - CHUNK_SAMPLES
         IN [chunk |-> f.chunk, q |-> f.q, n |-> IF m < 0 THEN 0 ELSE m]

\* ------------------------------------------------------------------------
\* The globals a synchronous send loop works on, as one record:
\* q audioBufferQueue, n queuedSamples, seq nextSeqNo, pend pendingChunks,
\* sb slidingBuffer, ts currentAudioTimestamp, log the client's send log,
\* deq the chunks dequeueChunk returned, rpl the chunks replayed
Globals == [q |-> audioBufferQueue, n |-> queuedSamples, seq |-> nextSeqNo,
            pend |-> pendingChunks, sb |-> slidingBuffer,
            ts |-> currentAudioTimestamp,
            log |-> IF client = 0 THEN <<>> ELSE sendLog[client],
            deq |-> dequeued, rpl |-> replayed]

\* addToSlidingBuffer (main.ts 497-500)
addToSlidingBuffer(g, chunk) ==
    [g EXCEPT !.sb = Append(@, [chunk |-> chunk, timestamp |-> g.ts]),
              !.ts = @ + CHUNK_DURATION_MS]

\* a send that puts the chunk in front of what the transport was handed before
sendChunkFront(g, chunk) ==
    [g EXCEPT !.seq = @ + 1,
              !.pend = MapSet(@, g.seq, [chunk |-> chunk, sentAt |-> now]),
              !.log = <<chunk>> \o @]

\* const seqNo = nextSeqNo++; pendingChunks.set(seqNo, {chunk, sentAt: now});
\* client.sendAudio(int16ToLittleEndian(chunk))   (main.ts 523-527, 470-474, 484-488)
sendChunk(g, chunk) ==
    [g EXCEPT !.seq = @ + 1,
              !.pend = MapSet(@, g.seq, [chunk |-> chunk, sentAt |-> now]),
              !.log = Append(@, chunk)]

\* the send loop of enqueueAudio (main.ts 519-530)
RECURSIVE liveLoop(_)
liveLoop(g) ==
    IF g.n >= CHUNK_SAMPLES
    THEN LET d == dequeueChunk(g.q, g.n)
         IN IF d.chunk = <<>> THEN g
            ELSE liveLoop(addToSlidingBuffer(
                     sendChunk([g EXCEPT !.q = d.q, !.n = d.n,
                                         !.deq = Append(@, d.chunk)], d.chunk),
                     d.chunk))
    ELSE g

\* the replay loop of reconnectSession (main.ts 467-477)
RECURSIVE replayLoop(_, _)
replayLoop(g, replayChunks) ==
    IF replayChunks = <<>> \/ client = 0 THEN g
    ELSE replayLoop(addToSlidingBuffer(
                        sendChunk([g EXCEPT !.rpl = Append(@, Head(replayChunks))],
                                  Head(replayChunks)),
                        Head(replayChunks)),
                    Tail(replayChunks))

\* the backlog loop of reconnectSession (main.ts 480-490)
RECURSIVE backlogLoop(_)
backlogLoop(g) ==
    IF g.n >= CHUNK_SAMPLES
    THEN LET d == dequeueChunk(g.q, g.n)
         IN IF d.chunk = <<>> \/ client = 0
            THEN [g EXCEPT !.q = d.q, !.n = d.n]
            ELSE backlogLoop(sendChunk([g EXCEPT !.q = d.q, !.n = d.n,
                                                 !.deq = Append(@, d.chunk)],
                                       d.chunk))
    ELSE g

\* the globals after a send loop ended in g, on transport c
StoreGlobals(g, c) ==
    /\ audioBufferQueue' = g.q
    /\ queuedSamples' = g.n
    /\ nextSeqNo' = g.seq
    /\ pendingChunks' = g.pend
    /\ slidingBuffer' = g.sb
    /\ currentAudioTimestamp' = g.ts
    /\ sendLog' = IF c = 0 THEN sendLog ELSE [sendLog EXCEPT ![c] = g.log]
    /\ dequeued' = g.deq
    /\ replayed' = g.rpl

\* ------------------------------------------------------------------------
\* Environment helpers

\* new RealtimeClient({url}) followed by client.start(...): a fresh transport
NewTransport == Len(sockets) + 1

\* client.stopRecognition({noTimeout: true}) on transport c of socket states
\* sk: the end of the stream is requested; the transport still delivers what
\* the service sends and closes when the service is done
stopRecognition(sk, c) == sk

\* window.setInterval: an id no timer that is set has
FreshTimer(active) == CHOOSE i \in 1..(Cardinality(active) + 1) : i \notin active

\* ------------------------------------------------------------------------
\* State after the module is loaded (main.ts 18-42)
Init ==
    /\ client = 0
    /\ isReconnecting = FALSE
    /\ audioBufferQueue = <<>>
    /\ queuedSamples = 0
    /\ nextSeqNo = 1
    /\ pendingChunks = EmptyMap
    /\ healthCheckIntervalId = 0
    /\ sessionStopped = TRUE
    /\ savedQueuedSamples = 0
    /\ slidingBuffer = <<>>
    /\ lastTranscriptEndTime = 0
    /\ currentAudioTimestamp = 0
    /\ audioContext = 0
    /\ pcmRecorder = 0
    /\ startDisabled = FALSE
    /\ stopDisabled = TRUE
    /\ starts = <<>>
    /\ recons = <<>>
    /\ sockets = <<>>
    /\ sendLog = <<>>
    /\ recorders = <<>>
    /\ timers = {}
    /\ now = 0
    /\ captured = 0
    /\ frames = 0
    /\ stopPhase = FALSE
    /\ dropped = FALSE
    /\ dequeued = <<>>
    /\ replayed = <<>>
    /\ enqueued = <<>>

\* ------------------------------------------------------------------------
\* startHealthCheck (main.ts 287-304): the timer part; the tick is HealthTick
startHealthCheck ==
    LET kept == IF healthCheckIntervalId # 0
                THEN timers \ {healthCheckIntervalId} ELSE timers
        id == FreshTimer(kept)
    IN /\ timers' = kept \cup {id}
       /\ healthCheckIntervalId' = id

\* ------------------------------------------------------------------------
\* startSession (main.ts 117-168)

\* click on the start button, up to the await of fetchJwt
StartClick(url) ==
    /\ ~startDisabled
    /\ Len(starts) < MaxStarts
    /\ Cardinality({i \in DOMAIN starts : starts[i].pc \notin {"done", "failed"}})
           < MaxPendingStarts
    /\ IF url = ""
       THEN UNCHANGED <<starts, recorders, stopPhase>>
       ELSE /\ starts' = Append(starts, [pc |-> "fetchJwt", transport |-> 0])
            /\ recorders' = Append(recorders, "none")
            /\ stopPhase' = FALSE
    /\ UNCHANGED <<prog, recons, sockets, sendLog, timers, now, captured,
                   frames, dropped, dequeued, replayed, enqueued>>

\* fetchJwt settles (main.ts 127-137)
StartJwt(i, ok) ==
    /\ starts[i].pc = "fetchJwt"
    /\ IF ok
       THEN /\ client' = NewTransport
            /\ sockets' = Append(sockets, "connecting")
            /\ sendLog' = Append(sendLog, <<>>)
            /\ dequeued' = <<>>
            /\ replayed' = <<>>
            /\ enqueued' = <<>>
            /\ starts' = [starts EXCEPT ![i] = [pc |-> "start", transport |-> NewTransport]]
       ELSE /\ starts' = [starts EXCEPT ![i] = [pc |-> "failed", transport |-> 0]]
            /\ UNCHANGED <<client, sockets, sendLog, dequeued, replayed, enqueued>>
    /\ UNCHANGED <<isReconnecting, audioBufferQueue, queuedSamples, nextSeqNo,
                   pendingChunks, healthCheckIntervalId, sessionStopped,
                   savedQueuedSamples, slidingBuffer, lastTranscriptEndTime,
                   currentAudioTimestamp, audioContext, pcmRecorder,
                   startDisabled, stopDisabled, recons, recorders, timers, now,
                   captured, frames, stopPhase, dropped>>

\* client.start settles (main.ts 137-156)
StartOpen(i, ok) ==
    /\ starts[i].pc = "start"
    /\ IF ok
       THEN /\ sockets[starts[i].transport] = "connecting"
            /\ sockets' = [sockets EXCEPT ![starts[i].transport] = "open"]
            /\ audioContext' = i
            /\ pcmRecorder' = i
            /\ recorders' = [recorders EXCEPT ![i] = "starting"]
            /\ starts' = [starts EXCEPT ![i].pc = "recording"]
       ELSE /\ starts' = [starts EXCEPT ![i] = [pc |-> "failed", transport |-> 0]]
            /\ UNCHANGED <<sockets, audioContext, pcmRecorder, recorders>>
    /\ UNCHANGED <<client, isReconnecting, audioBufferQueue, queuedSamples,
                   nextSeqNo, pendingChunks, healthCheckIntervalId,
                   sessionStopped, savedQueuedSamples, slidingBuffer,
                   lastTranscriptEndTime, currentAudioTimestamp, startDisabled,
                   stopDisabled, recons, sendLog, timers, now, captured, frames,
                   stopPhase, dropped, dequeued, replayed, enqueued>>

\* pcmRecorder.startRecording settles (main.ts 156-167)
StartRecording(i, ok) ==
    /\ starts[i].pc = "recording"
    /\ IF ok
       THEN /\ recorders' = [recorders EXCEPT ![i] =
                                IF @ = "starting" THEN "recording" ELSE @]
            /\ startHealthCheck
            /\ sessionStopped' = FALSE
            /\ startDisabled' = TRUE
            /\ stopDisabled' = FALSE
            /\ starts' = [starts EXCEPT ![i] = [pc |-> "done", transport |-> 0]]
       ELSE /\ recorders' = [recorders EXCEPT ![i] = "stopped"]
            /\ starts' = [starts EXCEPT ![i] = [pc |-> "failed", transport |-> 0]]
            /\ UNCHANGED <<timers, healthCheckIntervalId, sessionStopped,
                           startDisabled, stopDisabled>>
    /\ UNCHANGED <<client, isReconnecting, audioBufferQueue, queuedSamples,
                   nextSeqNo, pendingChunks, savedQueuedSamples, slidingBuffer,
                   lastTranscriptEndTime, currentAudioTimestamp, audioContext,
                   pcmRecorder, recons, sockets, sendLog, now, captured, frames,
                   stopPhase, dropped, dequeued, replayed, enqueued>>

\* ------------------------------------------------------------------------
\* stopSession (main.ts 170-204), run by a click on the stop button
stopSession ==
    /\ ~stopDisabled
    /\ sessionStopped' = TRUE
    /\ sockets' = stopRecognition(sockets, client)
    /\ audioContext' = 0
    /\ recorders' = IF pcmRecorder # 0
                    THEN [recorders EXCEPT ![pcmRecorder] = "stopped"]
                    ELSE recorders
    /\ pcmRecorder' = 0
    /\ audioBufferQueue' = <<>>
    /\ queuedSamples' = 0
    /\ pendingChunks' = EmptyMap
    /\ nextSeqNo' = 1
    /\ isReconnecting' = FALSE
    /\ slidingBuffer' = <<>>
    /\ lastTranscriptEndTime' = 0
    /\ currentAudioTimestamp' = 0
    /\ timers' = IF healthCheckIntervalId # 0
                 THEN timers \ {healthCheckIntervalId} ELSE timers
    /\ healthCheckIntervalId' = 0
    /\ startDisabled' = FALSE
    /\ stopDisabled' = TRUE
    /\ stopPhase' = TRUE
    /\ dropped' = FALSE
    /\ UNCHANGED <<client, savedQueuedSamples, starts, recons, sendLog, now,
                   captured, frames, dequeued, replayed, enqueued>>

\* ------------------------------------------------------------------------
\* enqueueAudio (main.ts 509-534), called by the recorder's audio listener
\* (main.ts 143-154) with the resampled frame
enqueueAudio(samples) ==
    IF samples.len = 0
    THEN UNCHANGED <<audioBufferQueue, queuedSamples, nextSeqNo, pendingChunks,
                     slidingBuffer, currentAudioTimestamp, sendLog, dequeued,
                     replayed, enqueued>>
    ELSE LET g0 == [Globals EXCEPT !.q = Append(@, samples),
                                   !.n = @ + samples.len]
         IN /\ enqueued' = Append(enqueued, samples)
            /\ IF client = 0 \/ sessionStopped \/ isReconnecting
               THEN StoreGlobals(g0, client)
               ELSE StoreGlobals(liveLoop(g0), client)

AudioEvent(len) ==
    /\ \E i \in DOMAIN recorders : recorders[i] = "recording"
    /\ frames < MaxFrames
    /\ IF sessionStopped \/ audioContext = 0
       THEN UNCHANGED <<audioBufferQueue, queuedSamples, nextSeqNo,
                        pendingChunks, slidingBuffer, currentAudioTimestamp,
                        sendLog, dequeued, replayed, enqueued, frames,
                        captured>>
       ELSE /\ enqueueAudio(Run(captured + 1, len))
            /\ frames' = frames + (IF len = 0 THEN 0 ELSE 1)
            /\ captured' = captured + len
    /\ UNCHANGED <<client, isReconnecting, healthCheckIntervalId,
                   sessionStopped, savedQueuedSamples, lastTranscriptEndTime,
                   audioContext, pcmRecorder, startDisabled, stopDisabled,
                   starts, recons, sockets, recorders, timers, now, stopPhase, dropped>>

\* ------------------------------------------------------------------------
\* handleReceiveMessage (main.ts 220-259)

\* a trim that also removes the entry whose timestamp is the end time
RECURSIVE trimSlidingBufferInclusive(_, _)
trimSlidingBufferInclusive(sb, e) ==
    IF Len(sb) > 0 /\ sb[1].timestamp <= e
    THEN trimSlidingBufferInclusive(Tail(sb), e)
    ELSE sb

\* trimSlidingBuffer (main.ts 502-507) of buffer sb against end time e
RECURSIVE trimSlidingBuffer(_, _)
trimSlidingBuffer(sb, e) ==
    IF Len(sb) > 0 /\ sb[1].timestamp < e
    THEN trimSlidingBuffer(Tail(sb), e)
    ELSE sb

\* the acknowledgment loop with i < ackSeqNo in place of i <= ackSeqNo
RECURSIVE ackLoopExclusive(_, _, _)
ackLoopExclusive(pend, i, ackSeqNo) ==
    IF i < ackSeqNo
    THEN ackLoopExclusive(MapDelete(pend, i), i + 1, ackSeqNo)
    ELSE pend

\* for (let i = 1; i <= ackSeqNo; i++) pendingChunks.delete(i)
RECURSIVE ackLoop(_, _, _)
ackLoop(pend, i, ackSeqNo) ==
    IF i <= ackSeqNo THEN ackLoop(MapDelete(pend, i), i + 1, ackSeqNo) ELSE pend

\* -1 stands for a field that is absent or not a number
Msg(m, seq, e) == [message |-> m, seq_no |-> seq, end_time |-> e]

\* what the service can send on transport t: it acknowledges audio it
\* received and reports transcript end times inside that audio
Messages(t) ==
    {Msg("AudioAdded", n, -1) : n \in {-1} \cup (1..Len(sendLog[t]))}
    \cup {Msg("AddTranscript", -1, -1)}
    \cup {Msg("AddTranscript", -1, k * CHUNK_DURATION_MS - d) :
              k \in 1..Len(sendLog[t]), d \in {0}}
    \cup {Msg("EndOfTranscript", -1, -1)}

\* the AddTranscript branch applying every numeric end time, without the
\* comparison with lastTranscriptEndTime
handleReceiveMessageAnyEndTime(data) ==
    IF data.message = "AddTranscript"
       THEN LET endTime == data.end_time
            IN IF endTime # -1
               THEN /\ lastTranscriptEndTime' = endTime
                    /\ slidingBuffer' = trimSlidingBuffer(slidingBuffer, endTime)
                    /\ UNCHANGED pendingChunks
               ELSE UNCHANGED <<lastTranscriptEndTime, slidingBuffer, pendingChunks>>
       ELSE IF data.message = "AudioAdded"
       THEN LET ackSeqNo == data.seq_no
            IN /\ pendingChunks' = IF ackSeqNo # -1
                                   THEN ackLoop(pendingChunks, 1, ackSeqNo)
                                   ELSE pendingChunks
               /\ UNCHANGED <<lastTranscriptEndTime, slidingBuffer>>
       ELSE UNCHANGED <<lastTranscriptEndTime, slidingBuffer, pendingChunks>>

handleReceiveMessage(data) ==
    IF data.message = "AddTranscript"
       THEN LET endTime == data.end_time
            IN IF endTime # -1 /\ endTime > lastTranscriptEndTime
               THEN /\ lastTranscriptEndTime' = endTime
                    /\ slidingBuffer' = trimSlidingBuffer(slidingBuffer, endTime)
                    /\ UNCHANGED pendingChunks
               ELSE UNCHANGED <<lastTranscriptEndTime, slidingBuffer, pendingChunks>>
       ELSE IF data.message = "AudioAdded"
       THEN LET ackSeqNo == data.seq_no
            IN /\ pendingChunks' = IF ackSeqNo # -1
                                   THEN ackLoop(pendingChunks, 1, ackSeqNo)
                                   ELSE pendingChunks
               /\ UNCHANGED <<lastTranscriptEndTime, slidingBuffer>>
       ELSE UNCHANGED <<lastTranscriptEndTime, slidingBuffer, pendingChunks>>

ReceiveMessage(t, data) ==
    /\ sockets[t] = "open"
    /\ data \in Messages(t)
    /\ handleReceiveMessage(data)
    /\ UNCHANGED <<client, isReconnecting, audioBufferQueue, queuedSamples,
                   nextSeqNo, healthCheckIntervalId, sessionStopped,
                   savedQueuedSamples, currentAudioTimestamp, audioContext,
                   pcmRecorder, startDisabled, stopDisabled, starts, recons,
                   env, stopPhase, dropped, dequeued, replayed, enqueued>>

\* ------------------------------------------------------------------------
\* reconnectSession (main.ts 401-495)

\* from the guard to the await of fetchJwt (main.ts 406-444); sk and tm are
\* the socket states and timers the caller leaves
reconnectBegin(sk, tm) ==
    /\ Len(recons) < MaxReconnects
    /\ isReconnecting' = TRUE
    /\ recons' = Append(recons,
           [pc |-> "fetchJwt",
            replayChunks |-> [k \in 1..Len(slidingBuffer) |-> slidingBuffer[k].chunk],
            savedQueue |-> audioBufferQueue,
            transport |-> 0])
    /\ slidingBuffer' = <<>>
    /\ lastTranscriptEndTime' = 0
    /\ currentAudioTimestamp' = 0
    /\ savedQueuedSamples' = queuedSamples
    /\ audioBufferQueue' = <<>>
    /\ queuedSamples' = 0
    /\ pendingChunks' = EmptyMap
    /\ nextSeqNo' = 1
    /\ timers' = IF healthCheckIntervalId # 0
                 THEN tm \ {healthCheckIntervalId} ELSE tm
    /\ healthCheckIntervalId' = 0
    /\ sockets' = stopRecognition(sk, client)
    /\ dropped' = FALSE
    /\ UNCHANGED <<client, sessionStopped, audioContext, pcmRecorder,
                   startDisabled, stopDisabled>>

\* reconnectSession without its guard
ReconnectUnguarded(sk, tm) == reconnectBegin(sk, tm)

\* the call of reconnectSession, to the await of fetchJwt (main.ts 401-444)
reconnectSession(sk, tm) ==
    IF isReconnecting
    THEN /\ sockets' = sk
         /\ timers' = tm
         /\ dropped' = TRUE
         /\ UNCHANGED <<prog, recons>>
    ELSE reconnectBegin(sk, tm)

\* an activation that returned or threw holds no locals
Finished(pc) == [pc |-> pc, replayChunks |-> <<>>, savedQueue |-> <<>>,
                 transport |-> 0]

\* fetchJwt settles (main.ts 444-451)
ReconJwt(j, ok) ==
    /\ recons[j].pc = "fetchJwt"
    /\ IF ok
       THEN /\ client' = NewTransport
            /\ sockets' = Append(sockets, "connecting")
            /\ sendLog' = Append(sendLog, <<>>)
            /\ dequeued' = <<>>
            /\ replayed' = <<>>
            /\ recons' = [recons EXCEPT ![j].pc = "start",
                                        ![j].transport = NewTransport]
       ELSE /\ recons' = [recons EXCEPT ![j] = Finished("failed")]
            /\ UNCHANGED <<client, sockets, sendLog, dequeued, replayed>>
    /\ UNCHANGED <<isReconnecting, audioBufferQueue, queuedSamples, nextSeqNo,
                   pendingChunks, healthCheckIntervalId, sessionStopped,
                   savedQueuedSamples, slidingBuffer, lastTranscriptEndTime,
                   currentAudioTimestamp, audioContext, pcmRecorder,
                   startDisabled, stopDisabled, starts, recorders, timers, now,
                   captured, frames, stopPhase, dropped, enqueued>>

\* client.start settles (main.ts 451-453)
ReconOpen(j, ok) ==
    /\ recons[j].pc = "start"
    /\ IF ok
       THEN /\ sockets[recons[j].transport] = "connecting"
            /\ sockets' = [sockets EXCEPT ![recons[j].transport] = "open"]
            /\ recons' = [recons EXCEPT ![j].pc = "settle"]
       ELSE /\ recons' = [recons EXCEPT ![j] = Finished("failed")]
            /\ UNCHANGED sockets
    /\ UNCHANGED <<prog, starts, sendLog, recorders, timers, now, captured,
                   frames, stopPhase, dropped, dequeued, replayed, enqueued>>

\* the settle delay is over (main.ts 453-495)
ReconSettle(j) ==
    /\ recons[j].pc = "settle"
    /\ UNCHANGED enqueued
    /\ LET g0 == [Globals EXCEPT !.q = recons[j].savedQueue \o @,
                                 !.n = savedQueuedSamples + @]
           g1 == replayLoop(g0, recons[j].replayChunks)
       IN \E g2 \in {backlogLoop(g1)} : StoreGlobals(g2, client)
    /\ isReconnecting' = FALSE
    /\ startHealthCheck
    /\ recons' = [recons EXCEPT ![j] = Finished("done")]
    /\ UNCHANGED <<client, sessionStopped, savedQueuedSamples,
                   lastTranscriptEndTime, audioContext, pcmRecorder,
                   startDisabled, stopDisabled, starts, sockets, recorders, now,
                   captured, frames, stopPhase, dropped>>

\* ------------------------------------------------------------------------
\* the socketStateChange listener (main.ts 261-269) for transport t going to
\* state s
\* the listener calling reconnectSession whatever sessionStopped is
SocketStateChangeUnchecked(t, s) ==
    /\ sockets[t] # "closed"
    /\ s \in {"closed", "error"}
    /\ reconnectSession([sockets EXCEPT ![t] = "closed"], timers)
    /\ UNCHANGED <<starts, sendLog, recorders, now, captured, frames,
                   stopPhase, dequeued, replayed, enqueued>>

SocketStateChange(t, s) ==
    /\ sockets[t] # "closed"
    /\ s \in {"closed", "error"}
    /\ IF ~sessionStopped
       THEN reconnectSession([sockets EXCEPT ![t] = "closed"], timers)
       ELSE /\ sockets' = [sockets EXCEPT ![t] = "closed"]
            /\ UNCHANGED <<prog, recons, timers, dropped>>
    /\ UNCHANGED <<starts, sendLog, recorders, now, captured, frames,
                   stopPhase, dequeued, replayed, enqueued>>

\* the interval callback of startHealthCheck (main.ts 292-303)
Stale == \E k \in DOMAIN pendingChunks :
             now - pendingChunks[k].sentAt > ACK_TIMEOUT_MS

\* the sequence numbers of the pending records in the order the Map iterates
\* them (insertion order: pendingChunks.set is called with increasing numbers)
RECURSIVE PendingKeys(_)
PendingKeys(ks) ==
    IF ks = {} THEN <<>>
    ELSE LET k == CHOOSE x \in ks : \A y \in ks : x <= y
         IN <<k>> \o PendingKeys(ks \ {k})

\* the loop of the interval callback without its break
RECURSIVE staleLoopNoBreak(_)
staleLoopNoBreak(ks) ==
    IF ks = <<>> THEN 0
    ELSE (IF now - pendingChunks[Head(ks)].sentAt > ACK_TIMEOUT_MS THEN 1 ELSE 0)
         + staleLoopNoBreak(Tail(ks))

\* for (const {sentAt} of pendingChunks.values()) if (now - sentAt >
\* ACK_TIMEOUT_MS) { reconnectSession(); break; }: the number of calls made
RECURSIVE staleLoop(_)
staleLoop(ks) ==
    IF ks = <<>> THEN 0
    ELSE IF now - pendingChunks[Head(ks)].sentAt > ACK_TIMEOUT_MS THEN 1
    ELSE staleLoop(Tail(ks))

\* the calls of reconnectSession one run of the interval callback makes
healthCheckCalls ==
    IF client = 0 \/ sessionStopped THEN 0
    ELSE staleLoop(PendingKeys(DOMAIN pendingChunks))

HealthTick(id) ==
    /\ id \in timers
    /\ IF healthCheckCalls > 0
       THEN reconnectSession(sockets, timers)
       ELSE UNCHANGED <<prog, recons, sockets, timers, dropped>>
    /\ UNCHANGED <<starts, sendLog, recorders, now, captured, frames,
                   stopPhase, dequeued, replayed, enqueued>>

\* time passes
AdvanceClock ==
    /\ now < MaxClockSteps * ClockStep
    /\ now' = now + ClockStep
    /\ UNCHANGED <<prog, starts, recons, sockets, sendLog, recorders, timers,
                   captured, frames, stopPhase, dropped, dequeued, replayed,
                   enqueued>>

\* ------------------------------------------------------------------------
Next ==
    \/ \E url \in {"", "wss"} : StartClick(url)
    \/ \E i \in DOMAIN starts, ok \in BOOLEAN : StartJwt(i, ok)
    \/ \E i \in DOMAIN starts, ok \in BOOLEAN : StartOpen(i, ok)
    \/ \E i \in DOMAIN starts, ok \in BOOLEAN : StartRecording(i, ok)
    \/ stopSession
    \/ \E len \in FrameLens : AudioEvent(len)
    \/ \E t \in DOMAIN sockets : \E data \in Messages(t) : ReceiveMessage(t, data)
    \/ \E t \in DOMAIN sockets, s \in {"closed", "error"} : SocketStateChange(t, s)
    \/ \E id \in timers : HealthTick(id)
    \/ \E j \in DOMAIN recons, ok \in BOOLEAN : ReconJwt(j, ok)
    \/ \E j \in DOMAIN recons, ok \in BOOLEAN : ReconOpen(j, ok)
    \/ \E j \in DOMAIN recons : ReconSettle(j)
    \/ AdvanceClock

Spec == Init /\ [][Next]_vars

\* ------------------------------------------------------------------------
\* Definitions the properties use

InFlight(j) == recons[j].pc \in {"fetchJwt", "start", "settle"}

\* the samples at positions off+1 .. off+len of a sequence of runs
RECURSIVE Slice(_, _, _)
Slice(rs, off, len) ==
    IF len = 0 \/ rs = <<>> THEN <<>>
    ELSE LET r == Head(rs)
         IN IF off >= r.len THEN Slice(Tail(rs), off - r.len, len)
            ELSE LET take == IF r.len - off < len THEN r.len - off ELSE len
                 IN ConcatRuns(<<Run(r.lo + off, take)>>,
                               Slice(Tail(rs), 0, len - take))

\* the full chunks a backlog of frames holds, front first
CutChunks(fs) ==
    [k \in 1..(SumLen(fs) \div CHUNK_SAMPLES) |->
        Slice(FlattenFrames(fs), (k - 1) * CHUNK_SAMPLES, CHUNK_SAMPLES)]

\* a step in which the socketStateChange listener calls reconnectSession
SocketTrigger == /\ ~sessionStopped
                 /\ \E t \in DOMAIN sockets :
                        SocketStateChange(t, "closed")

\* a step in which the health check calls reconnectSession
HealthTrigger == /\ client # 0 /\ ~sessionStopped /\ Stale
                 /\ \E id \in timers : HealthTick(id)

\* ------------------------------------------------------------------------
\* C1: when a reconnect attempt completes, the transport it opened has been
\* handed nothing before, and is handed exactly the chunks the replay buffer
\* held when the attempt began, oldest first, followed by the full chunks of
\* the backlog saved when it began continued by the audio captured since.
C1_ReconnectOrder ==
    [][\A j \in DOMAIN recons :
          (recons[j].pc = "settle" /\ recons'[j].pc = "done") =>
              LET T == recons[j].transport
              IN /\ sendLog[T] = <<>>
                 /\ sendLog'[T] = recons[j].replayChunks
                        \o CutChunks(recons[j].savedQueue \o audioBufferQueue)]_vars

\* C2: from a stop until the next start request no chunk is handed to any
\* transport, also when a reconnect attempt was suspended at the stop.
C2_StopSilencesReconnect ==
    [][(stopPhase /\ stopPhase') =>
          \A t \in DOMAIN sendLog : sendLog'[t] = sendLog[t]]_vars

\* C3: at most one reconnect attempt is in flight.
C3_OneReconnectInFlight ==
    Cardinality({j \in DOMAIN recons : InFlight(j)}) <= 1

\* C4: a call of reconnectSession while the guard is set changes no queue,
\* tracker, replay-buffer or timer state, starts no attempt and opens no
\* transport.
C4_GuardedTriggerIsNoOp ==
    [][(isReconnecting /\ (SocketTrigger \/ HealthTrigger)) =>
          /\ UNCHANGED <<client, isReconnecting, audioBufferQueue,
                         queuedSamples, savedQueuedSamples, nextSeqNo,
                         pendingChunks, slidingBuffer, lastTranscriptEndTime,
                         currentAudioTimestamp, healthCheckIntervalId, timers,
                         recons, sendLog>>
          /\ Len(sockets') = Len(sockets)]_vars

\* a trigger was dropped while an attempt is in flight
C4_Witness ==
    /\ dropped /\ isReconnecting
    /\ \E j \in DOMAIN recons : InFlight(j)

\* C5: after an attempt aborted, a trigger that arrives while no attempt is in
\* flight and the session is not stopped starts a new attempt.
C5_RetryAfterAbort ==
    [][(/\ \E j \in DOMAIN recons : recons[j].pc = "failed"
        /\ \A j \in DOMAIN recons : ~InFlight(j)
        /\ (SocketTrigger \/ HealthTrigger)) =>
          Len(recons') = Len(recons) + 1]_vars

\* C6: the k-th chunk handed to a transport is recorded in the pending map
\* under sequence number k.
C6_SeqNoPerEpoch ==
    [][\A t \in DOMAIN sendLog :
          \A k \in (Len(sendLog[t]) + 1)..Len(sendLog'[t]) :
              /\ k \in DOMAIN pendingChunks'
              /\ pendingChunks'[k].chunk = sendLog'[t][k]]_vars

\* what an acknowledgment of n (-1: no numeric seq_no) does
AckEffect(n) ==
    /\ DOMAIN pendingChunks' = {k \in DOMAIN pendingChunks : k > n}
    /\ \A k \in DOMAIN pendingChunks' : pendingChunks'[k] = pendingChunks[k]
    /\ n = -1 => pendingChunks' = pendingChunks
    /\ UNCHANGED <<nextSeqNo, audioBufferQueue, queuedSamples, slidingBuffer>>

\* C7: AudioAdded(N) removes exactly the pending records numbered <= N; an
\* AudioAdded without a numeric seq_no removes none; nextSeqNo, the queue and
\* the replay buffer stay as they are.  (A step either has the effect of the
\* acknowledgment of n or is not the receipt of that acknowledgment.)
C7_CumulativeAck ==
    [][UNCHANGED <<client, sockets, sendLog, now, frames, starts, recons>> =>
       \A t \in DOMAIN sockets : \A n \in {-1} \cup (1..Len(sendLog[t])) :
          \/ AckEffect(n)
          \/ ~ReceiveMessage(t, Msg("AudioAdded", n, -1))]_vars

\* an acknowledgment has removed the front of the pending records of the
\* current transport and left a later one
C7_Witness ==
    /\ client # 0
    /\ nextSeqNo = Len(sendLog[client]) + 1
    /\ 1 \notin DOMAIN pendingChunks
    /\ \E k \in DOMAIN pendingChunks : k > 1 /\ k < nextSeqNo

\* the sample sequence a is a prefix of the sample sequence b
SamplePrefix(a, b) ==
    /\ SumLen(a) <= SumLen(b)
    /\ Slice(b, 0, SumLen(a)) = a

\* L is an interleaving of A and B that keeps the order of each
RECURSIVE IsMerge(_, _, _)
IsMerge(L, A, B) ==
    IF L = <<>> THEN A = <<>> /\ B = <<>>
    ELSE \/ A # <<>> /\ Head(L) = Head(A) /\ IsMerge(Tail(L), Tail(A), B)
         \/ B # <<>> /\ Head(L) = Head(B) /\ IsMerge(Tail(L), A, Tail(B))

BufferChunks(sb) == [k \in 1..Len(sb) |-> sb[k].chunk]

IsSuffix(a, b) ==
    /\ Len(a) <= Len(b)
    /\ SubSeq(b, Len(b) - Len(a) + 1, Len(b)) = a

\* C9: the replay buffer holds a contiguous suffix of the chunks handed to the
\* current transport, in send order, and an entry leaves it only together
\* with every entry in front of it.
C9_ReplayBufferIsSentSuffix ==
    [][/\ client' # 0 =>
            IsSuffix(BufferChunks(slidingBuffer'), sendLog'[client'])
       /\ \A i, k \in DOMAIN slidingBuffer :
            (i < k /\ \E m \in DOMAIN slidingBuffer' :
                          slidingBuffer'[m] = slidingBuffer[i])
                => \E m \in DOMAIN slidingBuffer' :
                       slidingBuffer'[m] = slidingBuffer[k]]_vars

\* C10: from a stop until the next start request the backlog queue, its
\* sample count, the pending map and the replay buffer are empty, nextSeqNo
\* is 1, currentAudioTimestamp and lastTranscriptEndTime are 0 and no health
\* check timer is active.
C10_ClearedAfterStop ==
    stopPhase =>
        /\ audioBufferQueue = <<>>
        /\ queuedSamples = 0
        /\ DOMAIN pendingChunks = {}
        /\ slidingBuffer = <<>>
        /\ nextSeqNo = 1
        /\ currentAudioTimestamp = 0
        /\ lastTranscriptEndTime = 0
        /\ healthCheckIntervalId = 0
        /\ timers = {}

\* C11: a run of the health check calls reconnectSession once if the session
\* is not stopped and some pending record is older than ACK_TIMEOUT_MS, and
\* not at all otherwise; without a call nothing changes, and a call with the
\* guard clear starts an attempt.
C11_HealthTickRequestsOnce ==
    [][UNCHANGED <<now, frames, starts, sendLog, client>> =>
       \A id \in timers :
          HealthTick(id) =>
              /\ sessionStopped => healthCheckCalls = 0
              /\ ~sessionStopped =>
                     healthCheckCalls = (IF Stale THEN 1 ELSE 0)
              /\ healthCheckCalls = 0 => UNCHANGED <<prog, recons, sockets, timers>>
              /\ (healthCheckCalls = 1 /\ ~isReconnecting) =>
                     /\ Len(recons') = Len(recons) + 1
                     /\ isReconnecting']_vars

\* an attempt the health check started, every socket still up, at least two
\* chunks having been pending
C11_Witness ==
    /\ \A t \in DOMAIN sockets : sockets[t] # "closed"
    /\ \E j \in DOMAIN recons :
           /\ recons[j].pc = "fetchJwt"
           /\ Len(recons[j].replayChunks) >= 2

\* ------------------------------------------------------------------------
\* One session under the scheduling the event loop gives: a promise that was
\* awaited settles, an interval timer that is set keeps firing, and fetchJwt
\* and client.start succeed if they are tried again and again.  Clicks, audio
\* and socket failures are under no obligation to happen.
LiveNext == Next /\ Len(starts') <= 1

LiveSpec ==
    /\ Init
    /\ [][LiveNext]_vars
    /\ WF_vars(\E i \in DOMAIN starts, ok \in BOOLEAN : StartJwt(i, ok))
    /\ WF_vars(\E i \in DOMAIN starts, ok \in BOOLEAN : StartOpen(i, ok))
    /\ WF_vars(\E i \in DOMAIN starts, ok \in BOOLEAN : StartRecording(i, ok))
    /\ WF_vars(\E j \in DOMAIN recons, ok \in BOOLEAN : ReconJwt(j, ok))
    /\ WF_vars(\E j \in DOMAIN recons, ok \in BOOLEAN : ReconOpen(j, ok))
    /\ WF_vars(\E j \in DOMAIN recons : ReconSettle(j))
    /\ WF_vars(\E id \in timers : HealthTick(id))
    /\ SF_vars(\E j \in DOMAIN recons : ReconJwt(j, TRUE))
    /\ SF_vars(\E j \in DOMAIN recons : ReconOpen(j, TRUE))

\* C12: a session that is reconnecting and not stopped eventually is
\* streaming again or stopped.
C12_ReconnectEventuallyEnds ==
    (isReconnecting /\ ~sessionStopped) ~> (~isReconnecting \/ sessionStopped)

\* what dequeueChunk is to do on backlog q with count n
DequeueContract(q, n) ==
    LET d == dequeueChunk(q, n)
        samples == FlattenFrames(q)
    IN IF n < CHUNK_SAMPLES
       THEN d.chunk = <<>> /\ d.q = q /\ d.n = n
       ELSE /\ SumLen(d.chunk) = CHUNK_SAMPLES
            /\ d.chunk = Slice(samples, 0, CHUNK_SAMPLES)
            /\ d.n = n - CHUNK_SAMPLES
            /\ FlattenFrames(d.q) =
                   Slice(samples, CHUNK_SAMPLES, SumLen(q) - CHUNK_SAMPLES)
            /\ Len(d.q) <= Len(q)
            /\ \A k \in 2..Len(d.q) : d.q[k] = q[Len(q) - Len(d.q) + k]

\* C13: with fewer than CHUNK_SAMPLES samples counted, dequeueChunk returns
\* no chunk and leaves the queue and the count alone; otherwise it returns the
\* first CHUNK_SAMPLES samples of the backlog, takes CHUNK_SAMPLES off the
\* count and leaves the rest of the backlog, the frames behind the straddling
\* one untouched.  Stated of the backlog and count of every state, and of
\* those reconnectSession restores before its backlog loop calls dequeueChunk.
C13_DequeueChunkContract ==
    [][/\ DequeueContract(audioBufferQueue', queuedSamples')
       /\ \A j \in DOMAIN recons :
            (recons[j].pc = "settle" /\ recons'[j].pc = "done") =>
                DequeueContract(recons[j].savedQueue \o audioBufferQueue,
                                savedQueuedSamples + queuedSamples)]_vars

\* ------------------------------------------------------------------------
\* The chunk queue alone: enqueueAudio and dequeueChunk called in any order
\* while no client exists (enqueueAudio then only queues, main.ts 510-517)
MaxQueueFrames == 3
QueueFrameLens == {0, CHUNK_SAMPLES \div 2, CHUNK_SAMPLES + CHUNK_SAMPLES \div 2,
                   4 * CHUNK_SAMPLES}

QueueEnqueue(len) ==
    /\ frames < MaxQueueFrames
    /\ enqueueAudio(Run(captured + 1, len))
    /\ frames' = frames + 1
    /\ captured' = captured + len
    /\ UNCHANGED <<client, isReconnecting, healthCheckIntervalId,
                   sessionStopped, savedQueuedSamples, lastTranscriptEndTime,
                   audioContext, pcmRecorder, startDisabled, stopDisabled,
                   starts, recons, sockets, recorders, timers, now, stopPhase,
                   dropped>>

QueueDequeue ==
    /\ \E d \in {dequeueChunk(audioBufferQueue, queuedSamples)} :
           /\ audioBufferQueue' = d.q
           /\ queuedSamples' = d.n
           /\ dequeued' = IF d.chunk = <<>> THEN dequeued
                          ELSE Append(dequeued, d.chunk)
    /\ UNCHANGED <<client, isReconnecting, nextSeqNo, pendingChunks,
                   healthCheckIntervalId, sessionStopped, savedQueuedSamples,
                   slidingBuffer, lastTranscriptEndTime, currentAudioTimestamp,
                   audioContext, pcmRecorder, startDisabled, stopDisabled,
                   starts, recons, env, stopPhase, dropped, replayed, enqueued>>

QueueNext ==
    \/ \E len \in QueueFrameLens : QueueEnqueue(len)
    \/ QueueDequeue

QueueSpec == Init /\ [][QueueNext]_vars

\* C14: the chunks dequeued so far followed by the frames still in the
\* backlog are the non-empty frames enqueued, sample for sample, and the
\* count is not negative.
C14_QueueConservesSamples ==
    /\ ConcatRuns(FlattenChunks(dequeued), audioBufferQueue)
           = FlattenFrames(enqueued)
    /\ queuedSamples >= 0

\* two chunks were dequeued and the backlog starts with the rest of a frame
\* that a chunk cut in two
C14_Witness ==
    /\ Len(dequeued) >= 2
    /\ audioBufferQueue # <<>>
    /\ \A k \in DOMAIN enqueued : enqueued[k] # audioBufferQueue[1]

\* ------------------------------------------------------------------------
\* The replay buffer alone: addToSlidingBuffer records chunks of one epoch
\* and AddTranscript messages trim it (main.ts 237-242, 497-507)
MaxRecorded == 10
BufferEndTimes == {-1, 0, CHUNK_DURATION_MS, 2 * CHUNK_DURATION_MS + 20,
                   4 * CHUNK_DURATION_MS + 20, 10 * CHUNK_DURATION_MS}

BufferRecord ==
    /\ currentAudioTimestamp < MaxRecorded * CHUNK_DURATION_MS
    /\ \E g \in {addToSlidingBuffer(Globals,
                                    <<Run(captured + 1, CHUNK_SAMPLES)>>)} :
           /\ slidingBuffer' = g.sb
           /\ currentAudioTimestamp' = g.ts
    /\ captured' = captured + CHUNK_SAMPLES
    /\ UNCHANGED <<client, isReconnecting, audioBufferQueue, queuedSamples,
                   nextSeqNo, pendingChunks, healthCheckIntervalId,
                   sessionStopped, savedQueuedSamples, lastTranscriptEndTime,
                   audioContext, pcmRecorder, startDisabled, stopDisabled,
                   starts, recons, sockets, sendLog, recorders, timers, now,
                   frames, hist>>

BufferTranscript(e) ==
    /\ handleReceiveMessage(Msg("AddTranscript", -1, e))
    /\ UNCHANGED <<client, isReconnecting, audioBufferQueue, queuedSamples,
                   nextSeqNo, healthCheckIntervalId, sessionStopped,
                   savedQueuedSamples, currentAudioTimestamp, audioContext,
                   pcmRecorder, startDisabled, stopDisabled, starts, recons,
                   env, hist>>

BufferNext ==
    \/ BufferRecord
    \/ \E e \in BufferEndTimes : BufferTranscript(e)

BufferSpec == Init /\ [][BufferNext]_vars

\* C15: a trim with a new confirmed end time leaves exactly the entries whose
\* timestamp is not below it, in their order; applying the end time 220 ms
\* to ten recorded chunks of 50 ms leaves five entries.
C15_TrimKeepsFromEndTime ==
    [][/\ lastTranscriptEndTime' # lastTranscriptEndTime =>
              slidingBuffer' = SelectSeq(slidingBuffer,
                  LAMBDA x : x.timestamp >= lastTranscriptEndTime')
       /\ (/\ currentAudioTimestamp = 10 * CHUNK_DURATION_MS
           /\ Len(slidingBuffer) = 10
           /\ lastTranscriptEndTime' # lastTranscriptEndTime
           /\ lastTranscriptEndTime' = 4 * CHUNK_DURATION_MS + 20) =>
              Len(slidingBuffer') = 5]_vars

\* ten chunks were recorded, the end time 220 ms was applied and the entries
\* from 250 ms on remain
C15_Witness ==
    /\ currentAudioTimestamp = 10 * CHUNK_DURATION_MS
    /\ lastTranscriptEndTime = 4 * CHUNK_DURATION_MS + 20
    /\ Len(slidingBuffer) = 5
    /\ slidingBuffer[1].timestamp = 5 * CHUNK_DURATION_MS

\* ------------------------------------------------------------------------
\* C16: the confirmed end time goes down only in the step that begins a
\* reconnect or stops the session, and then to 0; the receipt of an
\* AddTranscript whose end time is not above the last applied one leaves the
\* replay buffer and the confirmed end time as they are.
C16_EndTimeMovesForward ==
    [][/\ lastTranscriptEndTime' < lastTranscriptEndTime =>
              /\ lastTranscriptEndTime' = 0
              /\ \/ Len(recons') = Len(recons) + 1
                 \/ ~stopDisabled /\ stopDisabled'
       /\ UNCHANGED <<client, sockets, sendLog, now, frames, starts, recons,
                      pendingChunks>> =>
              \A t \in DOMAIN sockets : \A k \in 1..Len(sendLog[t]) :
                  k * CHUNK_DURATION_MS <= lastTranscriptEndTime =>
                      \/ UNCHANGED <<slidingBuffer, lastTranscriptEndTime>>
                      \/ ~ReceiveMessage(t, Msg("AddTranscript", -1,
                                                k * CHUNK_DURATION_MS))]_vars

\* the end time 100 ms was applied on the current transport, which was handed
\* three chunks: its AddTranscript messages for 50 and 100 ms are now no-ops
C16_Witness ==
    /\ client # 0
    /\ sockets[client] = "open"
    /\ Len(sendLog[client]) >= 3
    /\ lastTranscriptEndTime = 2 * CHUNK_DURATION_MS
    /\ Len(slidingBuffer) = 1

\* ------------------------------------------------------------------------
\* C17: the replay entry stamped i x chunk duration holds the i-th chunk
\* (0-based) handed to the current transport, and the clock stands at the
\* number of chunks handed to it so far times the chunk duration.
C17_TimestampIsSendIndex ==
    (client # 0 /\ ~isReconnecting /\ ~sessionStopped) =>
        /\ currentAudioTimestamp = Len(sendLog[client]) * CHUNK_DURATION_MS
        /\ \A k \in DOMAIN slidingBuffer :
               LET i == slidingBuffer[k].timestamp \div CHUNK_DURATION_MS
               IN /\ slidingBuffer[k].timestamp = i * CHUNK_DURATION_MS
                  /\ i + 1 \in DOMAIN sendLog[client]
                  /\ sendLog[client][i + 1] = slidingBuffer[k].chunk

\* ------------------------------------------------------------------------
\* C18: a step taken while isReconnecting is set hands a chunk to a
\* transport only if it is the step of an attempt that clears the guard and
\* resends, and then only to a transport that has opened; a frame that
\* arrives while the guard is set is appended to the backlog and added to
\* the count.
C18_NoSendWhileReconnecting ==
    [][isReconnecting =>
          /\ \A t \in DOMAIN sendLog :
                 sendLog'[t] # sendLog[t] =>
                     /\ ~isReconnecting'
                     /\ \E j \in DOMAIN recons :
                            recons[j].pc = "settle" /\ recons'[j].pc = "done"
                     /\ sockets[t] # "connecting"
          /\ frames' = frames + 1 =>
                /\ audioBufferQueue' =
                       Append(audioBufferQueue,
                              Run(captured + 1, captured' - captured))
                /\ queuedSamples' = queuedSamples + (captured' - captured)
                /\ UNCHANGED <<sendLog, nextSeqNo, pendingChunks,
                               slidingBuffer>>]_vars

\* ------------------------------------------------------------------------
\* the latest start request has failed (main.ts 164-167) and none was made
\* since
StartFailed == starts # <<>> /\ starts[Len(starts)].pc = "failed"

\* C19: after a failed start the session is not marked active and no health
\* timer is set, and as long as no new start is made no step hands a chunk
\* to a transport and no step begins a reconnect.
C19_FailedStartIsIdle ==
    [][StartFailed =>
          /\ sessionStopped
          /\ timers = {}
          /\ healthCheckIntervalId = 0
          /\ \A t \in DOMAIN sendLog : sendLog'[t] = sendLog[t]
          /\ Len(recons') = Len(recons)]_vars

\* ------------------------------------------------------------------------
\* a step in which some transport reports closed or error
SocketEvent ==
    /\ Len(sockets') = Len(sockets)
    /\ \E t \in DOMAIN sockets : sockets[t] # "closed" /\ sockets'[t] = "closed"

\* C20: a reconnect begins only while the session is not stopped; a closed or
\* error event of a transport changes nothing of the session while it is
\* stopped, and begins a reconnect when the session is running and the guard
\* is clear.
C20_SocketEventReconnects ==
    [][/\ Len(recons') > Len(recons) => ~sessionStopped
       /\ (SocketEvent /\ sessionStopped) =>
              UNCHANGED <<prog, recons, timers, sendLog, starts, recorders>>
       /\ (SocketEvent /\ ~sessionStopped /\ ~isReconnecting) =>
              /\ isReconnecting'
              /\ Len(recons') = Len(recons) + 1
              /\ recons'[Len(recons')].pc = "fetchJwt"]_vars

\* the transport of a start that has not yet marked the session active has
\* closed and no reconnect was begun
C20_Witness ==
    /\ sessionStopped
    /\ ~isReconnecting
    /\ recons = <<>>
    /\ \E i \in DOMAIN starts :
           /\ starts[i].pc = "recording"
           /\ sockets[starts[i].transport] = "closed"

\* ------------------------------------------------------------------------
\* C21: the running count queuedSamples is the number of samples held in the
\* frames of audioBufferQueue.
C21_CountMatchesBacklog == queuedSamples = SumLen(audioBufferQueue)

\* ------------------------------------------------------------------------
\* C22: once a reconnect has replaced the transport, the receipt of an
\* AudioAdded from a transport other than the current one leaves the pending
\* records as they are.
C22_AckScopedToEpoch ==
    [][(/\ UNCHANGED <<client, sockets, sendLog, now, frames, starts, recons>>
        /\ ~sessionStopped
        /\ recons # <<>>) =>
          \A t \in DOMAIN sockets \ {client} : \A n \in 1..Len(sendLog[t]) :
              \/ UNCHANGED pendingChunks
              \/ ~ReceiveMessage(t, Msg("AudioAdded", n, -1))]_vars

\* ------------------------------------------------------------------------
\* C23: the confirmed end time is 0 when a transport is handed its first
\* chunk, and in a running session that has begun a reconnect the receipt of
\* an AddTranscript from a transport that the reconnect replaces or has
\* replaced leaves the confirmed end time and the replay buffer as they are.
C23_TranscriptScopedToEpoch ==
    [][/\ (\E t \in DOMAIN sendLog : sendLog[t] = <<>> /\ sendLog'[t] # <<>>) =>
              lastTranscriptEndTime = 0
       /\ (/\ UNCHANGED <<client, sockets, sendLog, now, frames, starts, recons,
                          pendingChunks>>
           /\ ~sessionStopped
           /\ recons # <<>>) =>
              \A t \in DOMAIN sockets : \A k \in 1..Len(sendLog[t]) :
                  (isReconnecting \/ t # client) =>
                      \/ UNCHANGED <<lastTranscriptEndTime, slidingBuffer>>
                      \/ ~ReceiveMessage(t, Msg("AddTranscript", -1,
                                                k * CHUNK_DURATION_MS))]_vars

====
